---- MODULE Spec2Model ----
(***************************************************************************)
(* Order book / matching engine of the artificial market simulation.       *)
(*   src/src/order/orders.py      Order (dataclass), execute, check_timeout *)
(*   src/src/order/orderbooks.py  OrderBook: two heapq heaps and trade_log  *)
(*   src/src/market/structure.py  Market: step / run over one OrderBook     *)
(* An Order object is identified by its order_id; the heaps hold entries    *)
(* (priority, order_id, order) and are modelled as the Python lists that    *)
(* heapq maintains, position by position.                                   *)
(***************************************************************************)
EXTENDS Integers, Sequences, FiniteSets, TLC

VARIABLES
    orders,         \* every Order object constructed so far, by order_id
    next_id,        \* Order._next_id
    buys,           \* OrderBook.buys, the heapq list of bid entries
    sells,          \* OrderBook.sells, the heapq list of ask entries
    trade_log,      \* OrderBook.trade_log
    current_time,   \* Market.current_time (the books driven directly have no clock)
    exc,            \* the exception the last call raised ("none" if it returned)
    submitted_qty,  \* history: the quantity each order was constructed with
    last_call,      \* history: the last query, timeout sweep or direct Order
                    \* method call, <<name, arguments..., return value>>;
                    \* <<>> after a submit_order call
    book2,          \* a second OrderBook instance of the same process:
                    \* its buys, sells and trade_log
    market          \* the Market driving the book: the number of registered
                    \* agents, the step() calls run() completed, and
                    \* whether run() is still to start, running, has
                    \* returned or was ended by an exception

vars == <<orders, next_id, buys, sells, trade_log, current_time, exc, submitted_qty,
          last_call, book2, market>>

(* ---------------------------- bounds ----------------------------------- *)
MaxOrders == 3
MaxPrice == 2
MaxQty == 2
MaxWait == 0
MaxTime == 1
MaxTrader == 1
MaxLoneOrders == 1
MaxDeepOrders == 4
MaxDeepQty == 1
MaxStaleOrders == 2
MaxPairs == 2
MaxRunSteps == 3
MaxRunWait == 1

Prices == 1..MaxPrice
Quantities == 1..MaxQty
WaitTimes == 0..MaxWait

\* The time steps a caller passes: Order.timestep and the argument of
\* cancel_timed_out_orders, check_timeout and execute.
Times == 0..MaxTime
Traders == 1..MaxTrader
DeepQuantities == 1..MaxDeepQty

(* ---------------------------- values ----------------------------------- *)
\* Python None / a present value of an Optional field or return value.
None == <<>>

Some(v) == <<v>>

\* v is None, for a field that otherwise holds an enum member (a string,
\* which has a positive length).
IsNone(v) == Len(v) = 0

BUY == "buy"

SELL == "sell"

MARKET == "market"

LIMIT == "limit"

PENDING == "pending"

EXECUTED == "executed"

CANCELLED == "cancelled"

\* Mutation: the second argument, whatever the first.
Min_Second(a, b) == IF a <= b THEN b ELSE b

Min(a, b) == IF a <= b THEN a ELSE b

\* The Order object with order_id i (order ids start at 0).
Obj(ords, i) == ords[i + 1]

(* ---------------------------- Order ------------------------------------ *)
\* The fields of the dataclass without a default: __init__ raises TypeError
\* when a call leaves one of them out.
RequiredFields == {"trader_id", "max_wait_time", "quantity", "timestep", "direction"}

\* The value of the init argument f: the one passed in kw, else the default d.
Arg(kw, f, d) == IF f \in DOMAIN kw THEN kw[f] ELSE d

\* Mutation: the counter is not consulted, every object gets id 0.
OrderInit_SameId(kw, id) ==
    [trader_id |-> kw.trader_id,
     max_wait_time |-> kw.max_wait_time,
     quantity |-> kw.quantity,
     timestep |-> kw.timestep,
     direction |-> kw.direction,
     order_type |-> Arg(kw, "order_type", None),
     price |-> Arg(kw, "price", None),
     order_id |-> 0,
     status |-> Arg(kw, "status", PENDING),
     executed_price |-> None,
     executed_timestep |-> None,
     cancelled_timestep |-> None]

\* Order.__init__ + __post_init__: the object built from the arguments kw
\* (by name, positional ones bound to the fields in declaration order) when
\* the process-wide counter is at id.  order_type and price default to None,
\* status to PENDING; the other three Optional fields are not init arguments.
OrderInit(kw, id) ==
    [trader_id |-> kw.trader_id,
     max_wait_time |-> kw.max_wait_time,
     quantity |-> kw.quantity,
     timestep |-> kw.timestep,
     direction |-> kw.direction,
     order_type |-> Arg(kw, "order_type", None),
     price |-> Arg(kw, "price", None),
     order_id |-> id,
     status |-> Arg(kw, "status", PENDING),
     executed_price |-> None,
     executed_timestep |-> None,
     cancelled_timestep |-> None]

\* Whether Order(...) called with the keyword arguments kw raises TypeError
\* (a required argument is missing).
OrderInitRaises(kw) == ~(RequiredFields \subseteq DOMAIN kw)

\* Mutation: the order is closed only when the quantity falls below 0.
execute_BelowZero(o, executed_price, executed_timestep, fill_qty) ==
    LET q == o.quantity - fill_qty
    IN [o EXCEPT !.executed_price = Some(executed_price),
                 !.executed_timestep = Some(executed_timestep),
                 !.quantity = q,
                 !.status = IF q < 0 THEN EXECUTED ELSE o.status]

\* Order.execute on one object.
execute(o, executed_price, executed_timestep, fill_qty) ==
    LET q == o.quantity - fill_qty
    IN [o EXCEPT !.executed_price = Some(executed_price),
                 !.executed_timestep = Some(executed_timestep),
                 !.quantity = q,
                 !.status = IF q <= 0 THEN EXECUTED ELSE o.status]

\* Mutation: no order ever times out.
check_timeout_Never(o, current_timestep) ==
    IF current_timestep - o.timestep > o.max_wait_time
    THEN <<o, FALSE>>
    ELSE <<o, FALSE>>

\* Mutation: an order aged exactly max_wait_time is cancelled too.
check_timeout_Inclusive(o, current_timestep) ==
    IF current_timestep - o.timestep >= o.max_wait_time
    THEN <<[o EXCEPT !.status = CANCELLED], TRUE>>
    ELSE <<o, FALSE>>

\* Order.check_timeout: <<object after the call, return value>>.
check_timeout(o, current_timestep) ==
    IF current_timestep - o.timestep > o.max_wait_time
    THEN <<[o EXCEPT !.status = CANCELLED], TRUE>>
    ELSE <<o, FALSE>>

(* ---------------------------- heapq ------------------------------------ *)
\* Heap entries are the tuples (priority, order_id, order); order_id is
\* unique, so the comparison never reaches the order itself.
Entry(prio, id) == [prio |-> prio, id |-> id]

EntryLess(a, b) == a.prio < b.prio \/ (a.prio = b.prio /\ a.id < b.id)

At(heap, pos) == heap[pos + 1]

Put(heap, pos, item) == [heap EXCEPT ![pos + 1] = item]

ParentPos(pos) == (pos - 1) \div 2

RECURSIVE siftdown(_, _, _, _)
\* heapq._siftdown: move newitem from pos towards startpos.
siftdown(heap, newitem, startpos, pos) ==
    IF pos > startpos /\ EntryLess(newitem, At(heap, ParentPos(pos)))
    THEN siftdown(Put(heap, pos, At(heap, ParentPos(pos))), newitem, startpos,
                  ParentPos(pos))
    ELSE Put(heap, pos, newitem)

\* The child heapq._siftup moves up: the right one unless the left is smaller.
SmallerChild(heap, childpos) ==
    IF childpos + 1 < Len(heap) /\ ~EntryLess(At(heap, childpos), At(heap, childpos + 1))
    THEN childpos + 1
    ELSE childpos

RECURSIVE siftup(_, _, _, _)
RECURSIVE SiftUpMove(_, _, _, _, _)
\* heapq._siftup: bubble the smaller child up to a leaf, then sift newitem down.
siftup(heap, newitem, startpos, pos) ==
    IF 2 * pos + 1 < Len(heap)
    THEN SiftUpMove(heap, newitem, startpos, pos, SmallerChild(heap, 2 * pos + 1))
    ELSE siftdown(Put(heap, pos, newitem), newitem, startpos, pos)

\* One iteration of the _siftup loop: the child at c moves up to pos.
SiftUpMove(heap, newitem, startpos, pos, c) ==
    siftup(Put(heap, pos, At(heap, c)), newitem, startpos, c)

heappush(heap, item) == siftdown(Append(heap, item), item, 0, Len(heap))

\* heappop after lastelt = heap.pop(): rest is the list left.
PopWith(rest, lastelt) ==
    IF rest # <<>>
    THEN [item |-> rest[1], heap |-> siftup(Put(rest, 0, lastelt), lastelt, 0, 0)]
    ELSE [item |-> lastelt, heap |-> rest]

\* heapq.heappop on a non-empty list: the item returned and the list left.
heappop(heap) == PopWith(SubSeq(heap, 1, Len(heap) - 1), heap[Len(heap)])

\* Mutation: the entry of a timed-out order stays in the list.
list_remove_Keeps(lst, entry) == SubSeq(lst, 1, Len(lst))

\* list.remove(entry): drop the first element equal to entry, shifting the
\* later elements one position to the left (no re-heapify).
RECURSIVE list_remove(_, _)
list_remove(lst, entry) ==
    IF lst = <<>> THEN <<>>
    ELSE IF Head(lst) = entry THEN Tail(lst)
    ELSE <<Head(lst)>> \o list_remove(Tail(lst), entry)

(* ---------------------------- OrderBook -------------------------------- *)
\* OrderBook._priority (price is never None here, so no ValueError).
priority(o) == IF o.direction = BUY THEN 0 - o.price ELSE o.price

\* Mutation: the test looks at the quantity only.
IsLive_QuantityOnly(o) == o.quantity > 0

\* The test of best_bid/best_ask on the top entry's order.
IsLive(o) == o.status = PENDING /\ o.quantity > 0

RECURSIVE best_loop(_, _)
\* The loop shared by best_bid and best_ask: pop stale entries off the top
\* until the top order is PENDING with quantity > 0.  Yields the priority of
\* that entry (None when the list runs empty) and the list left behind.
best_loop(heap, ords) ==
    IF heap = <<>> THEN [top |-> None, heap |-> heap]
    ELSE IF IsLive(Obj(ords, heap[1].id)) THEN [top |-> Some(heap[1].prio), heap |-> heap]
    ELSE best_loop(heappop(heap).heap, ords)

\* Mutation: the entry whose price is returned is popped as well.
BidResult_PopsTop(r) ==
    [ret |-> IF r.top = None THEN None ELSE Some(0 - r.top[1]),
     heap |-> IF r.heap = <<>> THEN r.heap ELSE heappop(r.heap).heap]

\* return -price
BidResult(r) ==
    [ret |-> IF r.top = None THEN None ELSE Some(0 - r.top[1]), heap |-> r.heap]

\* Mutation: an exhausted list is reported as price 0.
AskResult_Zero(r) ==
    [ret |-> IF r.top = None THEN Some(0) ELSE Some(r.top[1]), heap |-> r.heap]

\* return price
AskResult(r) ==
    [ret |-> IF r.top = None THEN None ELSE Some(r.top[1]), heap |-> r.heap]

\* OrderBook.best_bid: return value and self.buys afterwards.
best_bid(heap, ords) == BidResult(best_loop(heap, ords))

\* OrderBook.best_ask: return value and self.sells afterwards.
best_ask(heap, ords) == AskResult(best_loop(heap, ords))

\* Mutation: the acceptance test lets every popped order through.
BoundOk_Always(order, top_order) == order.direction \in {BUY, SELL}

\* The acceptance test of the sweep: the popped order's price against the
\* initiator's bound.
BoundOk(order, top_order) ==
    \/ order.direction = BUY /\ top_order.price <= order.price
    \/ order.direction = SELL /\ top_order.price >= order.price

\* Mutation: the fill is recorded at the initiator's bound.
TradePrice_Bound(order, top_order) == order.price

\* The price a fill is recorded at.
TradePrice(order, top_order) == IF top_order.price # 0 THEN top_order.price ELSE 0

\* Mutation: the two ids of the record are exchanged.
TradeRecord_Swapped(order, top_order, trade_price, trade_qty) ==
    [buyer_id |-> IF order.direction = BUY THEN top_order.order_id ELSE order.order_id,
     seller_id |-> IF order.direction = BUY THEN order.order_id ELSE top_order.order_id,
     trade_timestamp |-> order.timestep,
     trade_price |-> trade_price,
     trade_qty |-> trade_qty]

\* Mutation: the record carries the timestep of the resting order.
TradeRecord_RestingTime(order, top_order, trade_price, trade_qty) ==
    [buyer_id |-> IF order.direction = BUY THEN order.order_id ELSE top_order.order_id,
     seller_id |-> IF order.direction = BUY THEN top_order.order_id ELSE order.order_id,
     trade_timestamp |-> top_order.timestep,
     trade_price |-> trade_price,
     trade_qty |-> trade_qty]

\* One trade_log record.
TradeRecord(order, top_order, trade_price, trade_qty) ==
    [buyer_id |-> IF order.direction = BUY THEN order.order_id ELSE top_order.order_id,
     seller_id |-> IF order.direction = BUY THEN top_order.order_id ELSE order.order_id,
     trade_timestamp |-> order.timestep,
     trade_price |-> trade_price,
     trade_qty |-> trade_qty]

\* order.execute(...) and top_order.execute(...) of one fill; m and top are
\* the ids of the initiator and of the popped order.
ExecuteBoth(ords, m, top, trade_price, trade_qty) ==
    [ords EXCEPT
       ![m + 1] = execute(@, trade_price, Obj(ords, m).timestep, trade_qty),
       ![top + 1] = execute(@, trade_price, Obj(ords, m).timestep, trade_qty)]

\* Mutation: a popped order is never pushed back.
PushBack_Never(rest, top_order) ==
    IF top_order.quantity > 0 THEN rest ELSE rest

\* A partially filled order goes back on the book.
PushBack(rest, top_order) ==
    IF top_order.quantity > 0
    THEN heappush(rest, Entry(priority(top_order), top_order.order_id))
    ELSE rest

\* What the sweep hands back: the opposite list, the objects, the log and
\* the quantity still unfilled.
SweepResult(book, ords, log, remaining_quantity) ==
    [book |-> book, orders |-> ords, log |-> log, remaining |-> remaining_quantity]

RECURSIVE sweep(_, _, _, _, _)
RECURSIVE SweepPopped(_, _, _, _, _)
RECURSIVE SweepFill(_, _, _, _, _, _, _, _)
RECURSIVE SweepNext(_, _, _, _, _, _)
\* The while loop of _match_market_order for the market order with id m:
\* book is the opposite side's list, ords the objects, log the trade_log.
sweep(book, ords, log, remaining_quantity, m) ==
    IF remaining_quantity > 0 /\ book # <<>>
    THEN SweepPopped(heappop(book), ords, log, remaining_quantity, m)
    ELSE SweepResult(book, ords, log, remaining_quantity)

\* Mutation: the order that fails the bound test is pushed back before the break.
SweepPopped_Reinsert(p, ords, log, remaining_quantity, m) ==
    IF BoundOk(Obj(ords, m), Obj(ords, p.item.id))
    THEN SweepFill(p.heap, ords, log, remaining_quantity, m, p.item.id,
                   Min(remaining_quantity, Obj(ords, p.item.id).quantity),
                   TradePrice(Obj(ords, m), Obj(ords, p.item.id)))
    ELSE SweepResult(heappush(p.heap, p.item), ords, log, remaining_quantity)

\* The loop body after p = heappop(book): fill, or break on the bound.
SweepPopped(p, ords, log, remaining_quantity, m) ==
    IF BoundOk(Obj(ords, m), Obj(ords, p.item.id))
    THEN SweepFill(p.heap, ords, log, remaining_quantity, m, p.item.id,
                   Min(remaining_quantity, Obj(ords, p.item.id).quantity),
                   TradePrice(Obj(ords, m), Obj(ords, p.item.id)))
    ELSE SweepResult(p.heap, ords, log, remaining_quantity)

\* Mutation: the new record goes to the front of the log.
SweepFill_Prepend(rest, ords, log, remaining_quantity, m, top, trade_qty, trade_price) ==
    SweepNext(rest, ExecuteBoth(ords, m, top, trade_price, trade_qty),
              <<TradeRecord(Obj(ords, m), Obj(ords, top), trade_price, trade_qty)>> \o log,
              remaining_quantity - trade_qty, m, top)

\* The fill of trade_qty at trade_price against the popped order top.
SweepFill(rest, ords, log, remaining_quantity, m, top, trade_qty, trade_price) ==
    SweepNext(rest, ExecuteBoth(ords, m, top, trade_price, trade_qty),
              Append(log, TradeRecord(Obj(ords, m), Obj(ords, top), trade_price, trade_qty)),
              remaining_quantity - trade_qty, m, top)

\* Mutation: the loop ends after its first fill.
SweepNext_Once(rest, ords, log, remaining_quantity, m, top) ==
    SweepResult(PushBack(rest, Obj(ords, top)), ords, log, remaining_quantity)

\* The end of the loop body: push a partially filled order back, loop again.
SweepNext(rest, ords, log, remaining_quantity, m, top) ==
    sweep(PushBack(rest, Obj(ords, top)), ords, log, remaining_quantity, m)

\* The keyword arguments of the Order built from an unfilled remainder.
LeftoverArgs(order, remaining_quantity) ==
    [trader_id |-> order.trader_id,
     order_type |-> LIMIT,
     direction |-> order.direction,
     quantity |-> remaining_quantity,
     timestep |-> order.timestep,
     price |-> order.price]

\* Mutation: the early return is never taken.
NoMatch_Never(best) == best.ret = None /\ best.ret # None

\* The early return of _match_market_order: the opposite side has no best price.
NoMatch(best) == best.ret = None

\* Mutation: the entry is built but never pushed.
submit_limit_order_NoPush(heap, o) == SubSeq(heap, 1, Len(heap))

\* OrderBook._submit_limit_order: the side's list after the push.
submit_limit_order(heap, o) == heappush(heap, Entry(priority(o), o.order_id))

\* The state a submit_order call on an order of direction dir leaves: book is
\* the opposite side's list, own the order's own side.
CallResult(dir, book, own, ords, log, nid, e) ==
    [orders |-> ords, log |-> log, next_id |-> nid, exc |-> e,
     buys |-> IF dir = BUY THEN own ELSE book,
     sells |-> IF dir = BUY THEN book ELSE own]

\* self.submit_order(limit_order) for the remainder.
PlaceRemainder(limit_order, r, own, nid) ==
    CallResult(limit_order.direction, r.book, submit_limit_order(own, limit_order),
               Append(r.orders, limit_order), r.log, nid + 1, "none")

\* limit_order = Order(...): TypeError when a required argument is missing.
ConvertRemainder(kw, r, own, nid) ==
    IF OrderInitRaises(kw)
    THEN CallResult(kw.direction, r.book, own, r.orders, r.log, nid, "TypeError")
    ELSE PlaceRemainder(OrderInit(kw, nid), r, own, nid)

\* _match_market_order after the sweep returned r.
AfterSweep(r, own, nid, m) ==
    IF r.remaining > 0
    THEN ConvertRemainder(LeftoverArgs(Obj(r.orders, m), r.remaining), r, own, nid)
    ELSE CallResult(Obj(r.orders, m).direction, r.book, own, r.orders, r.log, nid, "none")

\* _match_market_order after best = best_ask() / best_bid() on the opposite side.
MatchFrom(best, own, ords, log, nid, m) ==
    IF NoMatch(best)
    THEN CallResult(Obj(ords, m).direction, best.heap, own, ords, log, nid, "none")
    ELSE AfterSweep(sweep(best.heap, ords, log, Obj(ords, m).quantity, m), own, nid, m)

\* OrderBook._match_market_order for the order with id m, from the state
\* (ords, b, s, log, nid): the state the call leaves and the exception raised.
match_market_order(ords, b, s, log, nid, m) ==
    IF Obj(ords, m).direction = BUY
    THEN MatchFrom(best_ask(s, ords), b, ords, log, nid, m)
    ELSE MatchFrom(best_bid(b, ords), s, ords, log, nid, m)

RECURSIVE cancel_side(_, _, _, _)
RECURSIVE CancelEntry(_, _, _, _, _)
\* One for-loop of cancel_timed_out_orders over the copy snap of a side's
\* list: check_timeout on every order, list.remove of each timed-out entry.
cancel_side(snap, heap, ords, current_timestamp) ==
    IF snap = <<>> THEN [heap |-> heap, orders |-> ords]
    ELSE CancelEntry(snap, heap, ords, current_timestamp,
                     check_timeout(Obj(ords, Head(snap).id), current_timestamp))

\* Mutation: a timed-out order is cancelled but its entry is not removed.
CancelEntry_NoRemove(snap, heap, ords, current_timestamp, c) ==
    cancel_side(Tail(snap), heap,
                [ords EXCEPT ![Head(snap).id + 1] = c[1]],
                current_timestamp)

\* The loop body for the entry Head(snap), c being what check_timeout gave.
CancelEntry(snap, heap, ords, current_timestamp, c) ==
    cancel_side(Tail(snap),
                IF c[2] THEN list_remove(heap, Head(snap)) ELSE heap,
                [ords EXCEPT ![Head(snap).id + 1] = c[1]],
                current_timestamp)

(* ---------------------------- state machine ---------------------------- *)
\* The value of last_call when the last call was a submit_order or a
\* cancel_timed_out_orders (neither a query, a reset nor a direct Order call).
NoCall == <<>>

\* OrderBook.__init__: two empty lists and an empty log.
NewBook == [buys |-> <<>>, sells |-> <<>>, trade_log |-> <<>>]

\* Market.__init__: no agent registered, run() not started.
NewMarket == [agents |-> 0, steps |-> 0, status |-> "new"]

Init ==
    /\ orders = <<>>
    /\ next_id = 0
    /\ buys = <<>>
    /\ sells = <<>>
    /\ trade_log = <<>>
    /\ current_time = 0
    /\ exc = "none"
    /\ submitted_qty = <<>>
    /\ last_call = NoCall
    /\ book2 = NewBook
    /\ market = NewMarket

\* The keyword arguments a trader passes to Order(...) at time step t.
TraderArgs(tr, dir, ty, q, p, w, t) ==
    [trader_id |-> tr, direction |-> dir, order_type |-> ty, quantity |-> q,
     price |-> p, timestep |-> t, max_wait_time |-> w]

\* submit_order(o) for a freshly built LIMIT order o.
LimitEffect(o) ==
    /\ orders' = Append(orders, o)
    /\ next_id' = next_id + 1
    /\ buys' = IF o.direction = BUY THEN submit_limit_order(buys, o) ELSE buys
    /\ sells' = IF o.direction = BUY THEN sells ELSE submit_limit_order(sells, o)
    /\ submitted_qty' = Append(submitted_qty, o.quantity)
    /\ exc' = "none"
    /\ last_call' = NoCall
    /\ UNCHANGED <<trade_log, current_time, book2, market>>

\* A caller builds a LIMIT order (timestep t of its choosing) and calls
\* OrderBook.submit_order on it
\* (at most maxOrders orders per run, quantities drawn from qs).
SubmitLimitOf(maxOrders, qs) ==
    /\ next_id < maxOrders
    /\ \E tr \in Traders, dir \in {BUY, SELL}, q \in qs, p \in Prices, w \in WaitTimes,
          t \in Times :
         LimitEffect(OrderInit(TraderArgs(tr, dir, LIMIT, q, p, w, t), next_id))

SubmitLimit == SubmitLimitOf(MaxOrders, Quantities)

\* submit_order on a freshly built MARKET order of quantity q left r.
MarketEffect(r, q) ==
    /\ orders' = r.orders
    /\ next_id' = r.next_id
    /\ buys' = r.buys
    /\ sells' = r.sells
    /\ trade_log' = r.log
    /\ exc' = r.exc
    /\ submitted_qty' =
         [i \in 1..Len(r.orders) |->
            IF i <= Len(submitted_qty) THEN submitted_qty[i]
            ELSE IF i = next_id + 1 THEN q ELSE r.orders[i].quantity]
    /\ last_call' = NoCall
    /\ UNCHANGED <<current_time, book2, market>>

\* A caller builds a MARKET order and calls OrderBook.submit_order on it.
SubmitMarketOf(maxOrders, qs) ==
    /\ next_id < maxOrders
    /\ \E tr \in Traders, dir \in {BUY, SELL}, q \in qs, p \in Prices, w \in WaitTimes,
          t \in Times :
         MarketEffect(
           match_market_order(
             Append(orders, OrderInit(TraderArgs(tr, dir, MARKET, q, p, w, t), next_id)),
             buys, sells, trade_log, next_id + 1, next_id),
           q)

SubmitMarket == SubmitMarketOf(MaxOrders, Quantities)

\* cancel_timed_out_orders after its first loop left rb and its second rs.
CancelEffect(rb, rs, t) ==
    /\ buys' = rb.heap
    /\ sells' = rs.heap
    /\ orders' = rs.orders
    /\ exc' = "none"
    /\ last_call' = <<"cancel_timed_out_orders", t>>
    /\ UNCHANGED <<next_id, trade_log, current_time, submitted_qty, book2, market>>

\* The second loop runs on the objects the first loop left.
CancelSells(rb, t) == CancelEffect(rb, cancel_side(sells, sells, rb.orders, t), t)

\* A caller invokes OrderBook.cancel_timed_out_orders(t).
CancelTimedOutOrders ==
    \E t \in Times : CancelSells(cancel_side(buys, buys, orders, t), t)

\* One OrderBook used through its public methods: every step is one call,
\* with the arguments the caller chooses.
Next ==
    \/ SubmitLimit
    \/ SubmitMarket
    \/ CancelTimedOutOrders

Spec == Init /\ [][Next]_vars

(* -------------- longer runs of the book, unit quantities --------------- *)
SubmitLimitDeep == SubmitLimitOf(MaxDeepOrders, DeepQuantities)

SubmitMarketDeep == SubmitMarketOf(MaxDeepOrders, DeepQuantities)

NextDeep ==
    \/ SubmitLimitDeep
    \/ SubmitMarketDeep
    \/ CancelTimedOutOrders

SpecDeep == Init /\ [][NextDeep]_vars

(* ---------------- the book with its queries and reset ------------------ *)
\* A best_bid() call that gave r: the lazily cleaned list stays in self.buys.
BidEffect(r) ==
    /\ buys' = r.heap
    /\ last_call' = <<"best_bid", r.ret>>
    /\ exc' = "none"
    /\ UNCHANGED <<orders, next_id, sells, trade_log, current_time, submitted_qty,
                   book2, market>>

\* A caller invokes OrderBook.best_bid().
BestBid == BidEffect(best_bid(buys, orders))

\* A best_ask() call that gave r.
AskEffect(r) ==
    /\ sells' = r.heap
    /\ last_call' = <<"best_ask", r.ret>>
    /\ exc' = "none"
    /\ UNCHANGED <<orders, next_id, buys, trade_log, current_time, submitted_qty,
                   book2, market>>

\* A caller invokes OrderBook.best_ask().
BestAsk == AskEffect(best_ask(sells, orders))

\* A snapshot() call whose best_bid() gave rb and whose best_ask() gave rs:
\* the depths are the lengths of the lists the two queries left.
SnapshotEffect(rb, rs) ==
    /\ buys' = rb.heap
    /\ sells' = rs.heap
    /\ last_call' = <<"snapshot", rb.ret, rs.ret, Len(rb.heap), Len(rs.heap)>>
    /\ exc' = "none"
    /\ UNCHANGED <<orders, next_id, trade_log, current_time, submitted_qty, book2, market>>

\* A caller invokes OrderBook.snapshot().
Snapshot == SnapshotEffect(best_bid(buys, orders), best_ask(sells, orders))

\* Mutation: reset forgets the asks.
Reset_BuysOnly ==
    /\ buys' = <<>>
    /\ sells' = sells
    /\ trade_log' = <<>>
    /\ exc' = "none"
    /\ last_call' = <<"reset">>
    /\ UNCHANGED <<orders, next_id, current_time, submitted_qty, book2, market>>

\* A caller invokes OrderBook.reset(): both lists and the log are cleared; the
\* Order objects and Order._next_id are not touched.
Reset ==
    /\ buys' = <<>>
    /\ sells' = <<>>
    /\ trade_log' = <<>>
    /\ exc' = "none"
    /\ last_call' = <<"reset">>
    /\ UNCHANGED <<orders, next_id, current_time, submitted_qty, book2, market>>

NextQuery ==
    \/ SubmitLimit
    \/ SubmitMarket
    \/ CancelTimedOutOrders
    \/ BestBid
    \/ BestAsk
    \/ Snapshot
    \/ Reset

SpecQuery == Init /\ [][NextQuery]_vars

(* ------------------- the Order object on its own ----------------------- *)
\* A caller constructs an Order and keeps it (no book involved).
ConstructOrder ==
    /\ next_id < MaxLoneOrders
    /\ \E tr \in Traders, dir \in {BUY, SELL}, ty \in {MARKET, LIMIT},
          q \in Quantities, p \in Prices, w \in WaitTimes,
          t \in Times :
         /\ orders' = Append(orders, OrderInit(TraderArgs(tr, dir, ty, q, p, w, t), next_id))
         /\ submitted_qty' = Append(submitted_qty, q)
    /\ next_id' = next_id + 1
    /\ exc' = "none"
    /\ last_call' = NoCall
    /\ UNCHANGED <<buys, sells, trade_log, current_time, book2, market>>

\* A caller invokes execute on an order it holds, whatever its status.  The
\* guard keeps the quantity from running below -MaxQty.
CallExecute ==
    /\ \E id \in 0..(Len(orders) - 1), p \in Prices, q \in Quantities, t \in Times :
         /\ Obj(orders, id).quantity >= 0
         /\ orders' = [orders EXCEPT ![id + 1] = execute(@, p, t, q)]
         /\ last_call' = <<"execute", id, p, t, q>>
    /\ exc' = "none"
    /\ UNCHANGED <<next_id, buys, sells, trade_log, current_time, submitted_qty,
                   book2, market>>

\* A caller invokes check_timeout on an order it holds, whatever its status.
CallCheckTimeout ==
    /\ \E id \in 0..(Len(orders) - 1), t \in Times :
         /\ orders' = [orders EXCEPT ![id + 1] = check_timeout(@, t)[1]]
         /\ last_call' = <<"check_timeout", id, t,
                            check_timeout(Obj(orders, id), t)[2]>>
    /\ exc' = "none"
    /\ UNCHANGED <<next_id, buys, sells, trade_log, current_time, submitted_qty,
                   book2, market>>

NextOrderApi ==
    \/ ConstructOrder
    \/ CallExecute
    \/ CallCheckTimeout

SpecOrderApi == Init /\ [][NextOrderApi]_vars

(* ------- resting orders mutated by their holders, then queried -------- *)
\* Traders keep the Order objects they submitted and may call execute and
\* check_timeout on them while the book still holds their entries: such an
\* entry is stale until a query pops it.
SubmitLimitStale == SubmitLimitOf(MaxStaleOrders, DeepQuantities)

NextStale ==
    \/ SubmitLimitStale
    \/ CancelTimedOutOrders
    \/ CallExecute
    \/ CallCheckTimeout
    \/ BestBid
    \/ BestAsk

SpecStale == Init /\ [][NextStale]_vars

(* ------------ two books of one process, given the same calls ----------- *)
\* Both books share the class counter Order._next_id.  Each call is made on
\* the first book and then on the second, every order freshly constructed
\* from the same arguments.
PairLimitEffect(o1, o2) ==
    /\ orders' = orders \o <<o1, o2>>
    /\ next_id' = next_id + 2
    /\ buys' = IF o1.direction = BUY THEN submit_limit_order(buys, o1) ELSE buys
    /\ sells' = IF o1.direction = BUY THEN sells ELSE submit_limit_order(sells, o1)
    /\ book2' = [book2 EXCEPT
                   !.buys = IF o2.direction = BUY THEN submit_limit_order(@, o2) ELSE @,
                   !.sells = IF o2.direction = BUY THEN @ ELSE submit_limit_order(@, o2)]
    /\ submitted_qty' = submitted_qty \o <<o1.quantity, o2.quantity>>
    /\ exc' = "none"
    /\ last_call' = NoCall
    /\ UNCHANGED <<trade_log, current_time, market>>

\* submit_order of a fresh LIMIT order on each of the two books.
PairLimit ==
    /\ next_id < 2 * MaxPairs
    /\ \E tr \in Traders, dir \in {BUY, SELL}, q \in Quantities, p \in Prices, w \in WaitTimes,
          t \in Times :
         PairLimitEffect(OrderInit(TraderArgs(tr, dir, LIMIT, q, p, w, t), next_id),
                         OrderInit(TraderArgs(tr, dir, LIMIT, q, p, w, t), next_id + 1))

\* The two submit_order calls of MARKET orders of quantity q left r1 (first
\* book) and r2 (second book, whose order was constructed after the first call).
PairMarketEffect(r1, r2, q) ==
    /\ orders' = r2.orders
    /\ next_id' = r2.next_id
    /\ buys' = r1.buys
    /\ sells' = r1.sells
    /\ trade_log' = r1.log
    /\ book2' = [buys |-> r2.buys, sells |-> r2.sells, trade_log |-> r2.log]
    /\ exc' = IF r1.exc # "none" THEN r1.exc ELSE r2.exc
    /\ submitted_qty' =
         [i \in 1..Len(r2.orders) |->
            IF i <= Len(submitted_qty) THEN submitted_qty[i]
            ELSE IF i = next_id + 1 \/ i = r1.next_id + 1 THEN q ELSE r2.orders[i].quantity]
    /\ last_call' = NoCall
    /\ UNCHANGED <<current_time, market>>

\* The call on the second book, made in the state r1 the first call left.
PairMarketSecond(kw, r1) ==
    PairMarketEffect(
      r1,
      match_market_order(Append(r1.orders, OrderInit(kw, r1.next_id)),
                         book2.buys, book2.sells, book2.trade_log,
                         r1.next_id + 1, r1.next_id),
      kw.quantity)

\* The call on the first book.
PairMarketFirst(kw) ==
    PairMarketSecond(
      kw,
      match_market_order(Append(orders, OrderInit(kw, next_id)),
                         buys, sells, trade_log, next_id + 1, next_id))

\* submit_order of a fresh MARKET order on each of the two books.
PairMarket ==
    /\ next_id < 2 * MaxPairs
    /\ \E tr \in Traders, dir \in {BUY, SELL}, q \in Quantities, p \in Prices, w \in WaitTimes,
          t \in Times :
         PairMarketFirst(TraderArgs(tr, dir, MARKET, q, p, w, t))

\* The four for-loops of the two cancel_timed_out_orders calls left rb1, rs1
\* (first book) and rb2, rs2 (second book).
PairCancelEffect(rb1, rs1, rb2, rs2) ==
    /\ buys' = rb1.heap
    /\ sells' = rs1.heap
    /\ book2' = [book2 EXCEPT !.buys = rb2.heap, !.sells = rs2.heap]
    /\ orders' = rs2.orders
    /\ exc' = "none"
    /\ last_call' = NoCall
    /\ UNCHANGED <<next_id, trade_log, current_time, submitted_qty, market>>

PairCancelSells2(rb1, rs1, rb2, t) ==
    PairCancelEffect(rb1, rs1, rb2,
                     cancel_side(book2.sells, book2.sells, rb2.orders, t))

PairCancelBuys2(rb1, rs1, t) ==
    PairCancelSells2(rb1, rs1,
                     cancel_side(book2.buys, book2.buys, rs1.orders, t), t)

PairCancelSells1(rb1, t) ==
    PairCancelBuys2(rb1, cancel_side(sells, sells, rb1.orders, t), t)

\* cancel_timed_out_orders(t) on each of the two books.
PairCancel ==
    \E t \in Times : PairCancelSells1(cancel_side(buys, buys, orders, t), t)

NextTwoBooks ==
    \/ PairLimit
    \/ PairMarket
    \/ PairCancel

SpecTwoBooks == Init /\ [][NextTwoBooks]_vars

(* --------------------- Market.run, step by step ------------------------ *)
\* The number of steps run() is to make.
max_timesteps == MaxRunSteps

\* The waiting budgets tau_i the agents give their orders.
RunWaitTimes == 0..MaxRunWait

\* Python truthiness of an Optional price.
Truthy(ret) == ret # None /\ ret[1] # 0

\* OrderBook.submit_order(o) for a freshly constructed o, from the state
\* (ords, b, s, log, nid): the state the call leaves and the exception raised.
submit_order(ords, b, s, log, nid, o) ==
    IF IsNone(o.order_type)
    THEN [orders |-> Append(ords, o), log |-> log, next_id |-> nid + 1, exc |-> "none",
          buys |-> b, sells |-> s]
    ELSE IF o.order_type = MARKET
    THEN match_market_order(Append(ords, o), b, s, log, nid + 1, o.order_id)
    ELSE IF o.order_type = LIMIT
    THEN [orders |-> Append(ords, o), log |-> log, next_id |-> nid + 1, exc |-> "none",
          buys |-> IF o.direction = BUY THEN submit_limit_order(b, o) ELSE b,
          sells |-> IF o.direction = BUY THEN s ELSE submit_limit_order(s, o)]
    ELSE [orders |-> Append(ords, o), log |-> log, next_id |-> nid + 1, exc |-> "none",
          buys |-> b, sells |-> s]

\* The agent's generate_order returned None: nothing is submitted.
NoOrder(ords, b, s) ==
    [orders |-> ords, log |-> trade_log, next_id |-> next_id, exc |-> "none",
     buys |-> b, sells |-> s]

\* Market.register_agent, before run() is called.
RegisterAgent ==
    /\ market.status = "new"
    /\ market.agents < MaxTrader
    /\ market' = [market EXCEPT !.agents = @ + 1]
    /\ UNCHANGED <<orders, next_id, buys, sells, trade_log, current_time, exc,
                   submitted_qty, last_call, book2>>

\* The state one step() call leaves: the book as r has it with the lists b
\* and s, the exception e that ended the step ("none" if it returned), and
\* whether the step got as far as current_time += 1; q is the quantity the
\* agent's order, if any, was constructed with.
StepEffect(r, b, s, e, advanced, q) ==
    /\ orders' = r.orders
    /\ next_id' = r.next_id
    /\ buys' = b
    /\ sells' = s
    /\ trade_log' = r.log
    /\ exc' = e
    /\ submitted_qty' =
         [i \in 1..Len(r.orders) |->
            IF i <= Len(submitted_qty) THEN submitted_qty[i]
            ELSE IF i = next_id + 1 THEN q ELSE r.orders[i].quantity]
    /\ current_time' = IF advanced THEN current_time + 1 ELSE current_time
    /\ market' = [market EXCEPT
                    !.steps = IF e = "none" THEN @ + 1 ELSE @,
                    !.status = IF e # "none" THEN "raised"
                               ELSE IF market.steps + 1 = max_timesteps THEN "returned"
                               ELSE "running"]
    /\ last_call' = NoCall
    /\ UNCHANGED book2

\* _update_liquidity_metrics after best_bid() gave bb and best_ask() gave ba:
\* with both prices present it calls self.orderbook.get_total_depth, which
\* OrderBook does not define; otherwise the step goes on to current_time += 1.
StepMetrics(r, bb, ba, q) ==
    IF Truthy(bb.ret) /\ Truthy(ba.ret)
    THEN StepEffect(r, bb.heap, ba.heap, "AttributeError", FALSE, q)
    ELSE StepEffect(r, bb.heap, ba.heap, "none", TRUE, q)

\* The step after _process_agent left r; q is the quantity the agent's order
\* was constructed with.
StepSubmitted(r, q) ==
    IF r.exc # "none"
    THEN StepEffect(r, r.buys, r.sells, r.exc, FALSE, q)
    ELSE StepMetrics(r, best_bid(r.buys, r.orders), best_ask(r.sells, r.orders), q)

\* The step after the timeout sweep and the two printed queries left the
\* lists b, s and the objects ords: return at once without agents, else one
\* agent is drawn (single_agent_per_step) and its generate_order is called.
\* The call returns None, returns an Order that is then submitted, or raises:
\* RetailTrader.generate_order reads self.is_bullied, which only
\* CyberbullyingModel.build_network sets, so a trader registered without the
\* network raises AttributeError before any Order exists, and the exception
\* leaves step() before _update_liquidity_metrics and current_time += 1.
StepPrinted(b, s, ords) ==
    IF market.agents = 0
    THEN StepEffect(NoOrder(ords, b, s), b, s, "none", FALSE, 0)
    ELSE \E tr \in 1..market.agents :
           \/ StepEffect(NoOrder(ords, b, s), b, s, "AttributeError", FALSE, 0)
           \/ StepSubmitted(NoOrder(ords, b, s), 0)
           \/ \E dir \in {BUY, SELL}, ty \in {MARKET, LIMIT}, q \in Quantities,
                 p \in Prices, w \in RunWaitTimes :
                StepSubmitted(
                  submit_order(ords, b, s, trade_log, next_id,
                               OrderInit(TraderArgs(tr, dir, ty, q, p, w, current_time), next_id)),
                  q)

StepCancelled(rb, rs) ==
    StepPrinted(best_bid(rb.heap, rs.orders).heap, best_ask(rs.heap, rs.orders).heap,
                rs.orders)

StepCancelSells(rb) ==
    StepCancelled(rb, cancel_side(sells, sells, rb.orders, current_time))

\* One iteration of the loop of Market.run: a whole Market.step() call.
MarketStep ==
    /\ market.status \in {"new", "running"}
    /\ market.steps < max_timesteps
    /\ StepCancelSells(cancel_side(buys, buys, orders, current_time))

NextMarket ==
    \/ RegisterAgent
    \/ MarketStep

SpecMarket == Init /\ [][NextMarket]_vars

(* ------------- Order(...) called with arbitrary arguments -------------- *)
\* Argument values a caller may hand to the constructor: the dataclass does
\* not restrict them.  "hold" stands for any value outside OrderDirection.
RawQuantities == (0 - 1)..MaxQty

RawPrices == 0..MaxPrice

RawDirections == {BUY, SELL, "hold"}

\* Order(...) with the keyword arguments kw, all required ones present:
\* __post_init__ draws the id and checks nothing.
ConstructEffect(kw) ==
    /\ orders' = Append(orders, OrderInit(kw, next_id))
    /\ next_id' = next_id + 1
    /\ submitted_qty' = Append(submitted_qty, kw.quantity)
    /\ exc' = "none"

\* A caller constructs an Order from arguments of its own choosing.
ConstructRawOrder ==
    /\ next_id < MaxLoneOrders
    /\ \E tr \in Traders, dir \in RawDirections, ty \in {MARKET, LIMIT},
          q \in RawQuantities, p \in RawPrices, w \in WaitTimes, t \in Times :
         ConstructEffect(TraderArgs(tr, dir, ty, q, p, w, t))
    /\ last_call' = NoCall
    /\ UNCHANGED <<buys, sells, trade_log, current_time, book2, market>>

NextRawOrder ==
    \/ ConstructRawOrder
    \/ CallExecute
    \/ CallCheckTimeout

SpecRawOrder == Init /\ [][NextRawOrder]_vars

(* ---------------------------- properties ------------------------------- *)
\* The name of the last query or direct call ("" when there is none).
LastOp == IF last_call = NoCall THEN "" ELSE last_call[1]

OrderIds == 0..(Len(orders) - 1)

\* The two orders a trade record names.
Buyer(t) == Obj(orders, t.buyer_id)

Seller(t) == Obj(orders, t.seller_id)

\* The initiating (MARKET) order and the resting order of a trade record.
Initiator(t) == IF Buyer(t).order_type = MARKET THEN Buyer(t) ELSE Seller(t)

Resting(t) == IF Buyer(t).order_type = MARKET THEN Seller(t) ELSE Buyer(t)

Trades == {trade_log[i] : i \in 1..Len(trade_log)}

\* C1: every trade record carries the price of the resting order it was
\* filled against, not the price bound of the initiating market order.
C1_TradePriceIsRestingPrice ==
    \A t \in Trades :
        /\ Initiator(t).order_type = MARKET
        /\ Resting(t).order_type = LIMIT
        /\ t.trade_price = Resting(t).price

\* A fill whose resting price differs from the initiator's bound.
C1_Witness ==
    \E t \in Trades :
        /\ Resting(t).price # Initiator(t).price
        /\ t.trade_price = Resting(t).price

\* C7: an initiating BUY never trades above its price bound and an initiating
\* SELL never trades below its price bound.
C7_TradeWithinBound ==
    \A t \in Trades :
        /\ Initiator(t).direction = BUY => t.trade_price <= Initiator(t).price
        /\ Initiator(t).direction = SELL => t.trade_price >= Initiator(t).price

\* An order that left its book without being filled or cancelled: the sweep
\* popped it and it failed the bound test.
InBook(id) ==
    \/ \E i \in 1..Len(buys) : buys[i].id = id
    \/ \E i \in 1..Len(sells) : sells[i].id = id

Rejected(id) ==
    /\ Obj(orders, id).order_type = LIMIT
    /\ Obj(orders, id).status = PENDING
    /\ Obj(orders, id).executed_price = None
    /\ ~InBook(id)

\* A market BUY filled at a price within its bound and then stopped at a
\* resting ask above the bound.
C7_Witness ==
    \E t \in Trades : \E id \in OrderIds :
        /\ Initiator(t).direction = BUY
        /\ t.trade_price <= Initiator(t).price
        /\ Rejected(id)
        /\ Obj(orders, id).direction = SELL
        /\ Obj(orders, id).price > Initiator(t).price

\* Entries of a side's list: membership and multiplicity.
InHeap(heap, id) == \E i \in 1..Len(heap) : heap[i].id = id

Count(heap, id) == Cardinality({i \in 1..Len(heap) : heap[i].id = id})

HeapIds(heap) == {heap[i].id : i \in 1..Len(heap)}

\* A step in which a trader's LIMIT order was constructed and submitted.
LimitSubmitStep ==
    /\ Len(orders') = Len(orders) + 1
    /\ orders'[Len(orders')].order_type = LIMIT

\* A step in which a trader's MARKET order was constructed and submitted.
MarketSubmitStep ==
    /\ Len(orders') > Len(orders)
    /\ orders'[Len(orders) + 1].order_type = MARKET

\* C6: submitting a LIMIT order never trades, whatever the opposite side
\* holds: trade_log and the opposite list are unchanged, no existing order
\* changes, and exactly one entry for the new order is added to its own side.
C6_LimitNeverTrades ==
    [][LimitSubmitStep =>
         LET o == orders'[Len(orders')]
             own == IF o.direction = BUY THEN buys ELSE sells
             ownAfter == IF o.direction = BUY THEN buys' ELSE sells'
             opp == IF o.direction = BUY THEN sells ELSE buys
             oppAfter == IF o.direction = BUY THEN sells' ELSE buys'
         IN /\ trade_log' = trade_log
            /\ oppAfter = opp
            /\ SubSeq(orders', 1, Len(orders)) = orders
            /\ o.status = PENDING
            /\ o.quantity = submitted_qty'[Len(orders')]
            /\ Len(ownAfter) = Len(own) + 1
            /\ Count(ownAfter, o.order_id) = 1
            /\ \A id \in HeapIds(own) : Count(ownAfter, id) = Count(own, id)
            /\ exc' = "none"
      ]_vars

\* Both sides rest at crossing prices and nothing has traded.
C6_Witness ==
    /\ trade_log = <<>>
    /\ \E b \in HeapIds(buys), a \in HeapIds(sells) :
         /\ Obj(orders, b).status = PENDING
         /\ Obj(orders, a).status = PENDING
         /\ Obj(orders, b).price >= Obj(orders, a).price
         /\ a = next_id - 1

\* C8: a MARKET order submitted while the opposite side holds no PENDING
\* order is a no-op that raises nothing: no trade, no order changed (the
\* submitted one included), and the order is placed on neither side.
C8_MarketOnEmptyIsNoOp ==
    [][(/\ MarketSubmitStep
        /\ LET d == orders'[Len(orders) + 1].direction
               opp == IF d = BUY THEN sells ELSE buys
           IN \A i \in 1..Len(opp) : Obj(orders, opp[i].id).status # PENDING)
       =>
         LET m == orders'[Len(orders) + 1]
             own == IF m.direction = BUY THEN buys ELSE sells
             ownAfter == IF m.direction = BUY THEN buys' ELSE sells'
             oppAfter == IF m.direction = BUY THEN sells' ELSE buys'
         IN /\ exc' = "none"
            /\ trade_log' = trade_log
            /\ Len(orders') = Len(orders) + 1
            /\ SubSeq(orders', 1, Len(orders)) = orders
            /\ m.status = PENDING
            /\ m.quantity = submitted_qty'[Len(orders')]
            /\ m.executed_price = None
            /\ m.executed_timestep = None
            /\ ownAfter = own
            /\ \A i \in 1..Len(oppAfter) : Obj(orders', oppAfter[i].id).status # PENDING
            /\ ~InHeap(buys', m.order_id)
            /\ ~InHeap(sells', m.order_id)
      ]_vars

\* The newest order is an untouched MARKET order whose call returned, and
\* the opposite side had been emptied by a timeout sweep.
C8_Witness ==
    /\ next_id >= 2
    /\ exc = "none"
    /\ trade_log = <<>>
    /\ LET m == Obj(orders, next_id - 1)
       IN /\ m.order_type = MARKET
          /\ m.status = PENDING
          /\ m.executed_price = None
          /\ ~InHeap(buys, m.order_id) /\ ~InHeap(sells, m.order_id)
          /\ (IF m.direction = BUY THEN sells ELSE buys) = <<>>
          /\ \E id \in OrderIds :
               /\ Obj(orders, id).status = CANCELLED
               /\ Obj(orders, id).direction # m.direction
               /\ Obj(orders, id).timestep < m.timestep

\* C9: cancel_timed_out_orders(t) removes and marks CANCELLED exactly the
\* resting orders with t - timestep > max_wait_time; every other resting
\* order stays in its list unchanged, and trade_log is unchanged.
C9_CancelExactlyTimedOut ==
    [][LastOp' = "cancel_timed_out_orders" =>
         /\ trade_log' = trade_log
         /\ Len(orders') = Len(orders)
         /\ HeapIds(buys') \subseteq HeapIds(buys)
         /\ HeapIds(sells') \subseteq HeapIds(sells)
         /\ \A id \in OrderIds :
              LET o == Obj(orders, id)
                  oAfter == Obj(orders', id)
              IN IF InHeap(buys, id) \/ InHeap(sells, id)
                 THEN IF last_call'[2] - o.timestep > o.max_wait_time
                      THEN /\ ~InHeap(buys', id) /\ ~InHeap(sells', id)
                           /\ oAfter.status = CANCELLED
                      ELSE /\ Count(buys', id) = Count(buys, id)
                           /\ Count(sells', id) = Count(sells, id)
                           /\ oAfter = o
                 ELSE oAfter = o
      ]_vars

\* A timeout sweep has cancelled one resting order and kept a younger one
\* of the same side in the book.
C9_Witness ==
    \E c \in OrderIds, k \in OrderIds :
        /\ Obj(orders, c).status = CANCELLED
        /\ ~InBook(c)
        /\ Obj(orders, k).status = PENDING
        /\ Obj(orders, k).direction = Obj(orders, c).direction
        /\ InBook(k)
        /\ LastOp = "cancel_timed_out_orders"
        /\ last_call[2] - Obj(orders, c).timestep > Obj(orders, c).max_wait_time
        /\ last_call[2] - Obj(orders, k).timestep <= Obj(orders, k).max_wait_time
        /\ exc = "none"

\* The records a step appended to trade_log.
NewTrades == SubSeq(trade_log', Len(trade_log) + 1, Len(trade_log'))

RECURSIVE SumQty(_)
SumQty(trades) ==
    IF trades = <<>> THEN 0 ELSE Head(trades).trade_qty + SumQty(Tail(trades))

\* The resting orders of a side that are PENDING, by id.
PendingIds(heap, ords) == {id \in HeapIds(heap) : Obj(ords, id).status = PENDING}

\* Price-time priority among the orders ids: best price first (highest bid,
\* lowest ask), then smallest order_id.
Better(ords, a, b) ==
    LET oa == Obj(ords, a)
        ob == Obj(ords, b)
    IN \/ (oa.direction = BUY /\ oa.price > ob.price)
       \/ (oa.direction = SELL /\ oa.price < ob.price)
       \/ (oa.price = ob.price /\ a < b)

BestOf(ords, ids) == CHOOSE a \in ids : \A b \in ids \ {a} : Better(ords, a, b)

RECURSIVE FillsInPriority(_, _, _, _)
\* Whether the fills trades, taken in order against the live resting orders
\* with remaining quantities qty, each hit the order of best priority.
FillsInPriority(trades, live, qty, ords) ==
    IF trades = <<>> THEN TRUE
    ELSE LET t == Head(trades)
             r == IF Obj(ords, t.buyer_id).order_type = MARKET
                  THEN t.seller_id ELSE t.buyer_id
             left == qty[r] - t.trade_qty
         IN /\ r \in live
            /\ r = BestOf(ords, live)
            /\ FillsInPriority(Tail(trades),
                               IF left > 0 THEN live ELSE live \ {r},
                               [qty EXCEPT ![r] = left], ords)

\* C2: every fill of a market-order sweep is against the opposite-side
\* PENDING order of best price-time priority among those then in the book.
C2_SweepInPriorityOrder ==
    [][MarketSubmitStep =>
         LET m == orders'[Len(orders) + 1]
             opp == IF m.direction = BUY THEN sells ELSE buys
         IN FillsInPriority(NewTrades, PendingIds(opp, orders),
                            [id \in OrderIds |-> Obj(orders, id).quantity], orders')
      ]_vars

\* The prices of the PENDING positive-quantity orders a side holds.
LivePrices(heap) ==
    {Obj(orders, id).price :
        id \in {j \in HeapIds(heap) :
                  Obj(orders, j).status = PENDING /\ Obj(orders, j).quantity > 0}}

MaxOf(S) == CHOOSE x \in S : \A y \in S : y <= x

MinOf(S) == CHOOSE x \in S : \A y \in S : x <= y

\* C3: best_bid() is the highest price among the PENDING positive-quantity
\* bids held, best_ask() the lowest among the asks held, None exactly when
\* the side holds no such order.
C3_BestIsExtremeLivePrice ==
    /\ best_bid(buys, orders).ret =
         (IF LivePrices(buys) = {} THEN None ELSE Some(MaxOf(LivePrices(buys))))
    /\ best_ask(sells, orders).ret =
         (IF LivePrices(sells) = {} THEN None ELSE Some(MinOf(LivePrices(sells))))

\* C4: the fills of a market order's sweep plus the quantity of the LIMIT
\* order created from its remainder (0 if none) add up to the quantity the
\* market order was submitted with.  Stated for the market orders whose
\* sweep runs (the opposite side holds a PENDING order).
C4_QuantityConserved ==
    [][(/\ MarketSubmitStep
        /\ LET d == orders'[Len(orders) + 1].direction
           IN PendingIds(IF d = BUY THEN sells ELSE buys, orders) # {})
       =>
         LET leftover == IF Len(orders') > Len(orders) + 1
                         THEN submitted_qty'[Len(orders) + 2] ELSE 0
         IN SumQty(NewTrades) + leftover = submitted_qty'[Len(orders) + 1]
      ]_vars

\* C5: when a sweep ends with remaining quantity > 0, submit_order returns
\* normally and the initiator's own side holds a new PENDING LIMIT order
\* with the market order's trader_id, direction, price and timestep and the
\* remainder as quantity.
C5_RemainderBecomesLimit ==
    [][(/\ MarketSubmitStep
        /\ LET d == orders'[Len(orders) + 1].direction
           IN PendingIds(IF d = BUY THEN sells ELSE buys, orders) # {}
        /\ submitted_qty'[Len(orders) + 1] - SumQty(NewTrades) > 0)
       =>
         LET m == orders'[Len(orders) + 1]
             remaining == submitted_qty'[Len(orders) + 1] - SumQty(NewTrades)
             ownAfter == IF m.direction = BUY THEN buys' ELSE sells'
         IN /\ exc' = "none"
            /\ \E i \in (Len(orders) + 2)..Len(orders') :
                 /\ orders'[i].order_type = LIMIT
                 /\ orders'[i].status = PENDING
                 /\ orders'[i].trader_id = m.trader_id
                 /\ orders'[i].direction = m.direction
                 /\ orders'[i].price = m.price
                 /\ orders'[i].timestep = m.timestep
                 /\ orders'[i].quantity = remaining
                 /\ Count(ownAfter, orders'[i].order_id) = 1
      ]_vars

\* C10: an order's status is monotonic: once EXECUTED or CANCELLED, no call
\* to execute or check_timeout changes it.
C10_StatusMonotonic ==
    [][\A id \in OrderIds :
          Obj(orders, id).status \in {EXECUTED, CANCELLED}
             => Obj(orders', id).status = Obj(orders, id).status
      ]_vars

\* C11: an Order is only ever constructed well-formed: positive quantity, a
\* recognized direction, and a positive price when it is a LIMIT order; an
\* ill-formed construction fails and leaves no object.
WellFormed(o) ==
    /\ o.quantity > 0
    /\ o.direction \in {BUY, SELL}
    /\ o.order_type = LIMIT => o.price > 0

C11_IllFormedOrderRejected == \A i \in 1..Len(orders) : WellFormed(orders[i])

IsPrefix(a, b) == Len(a) <= Len(b) /\ SubSeq(b, 1, Len(a)) = a

\* C12: trade_log is append-only: over any call (submit_order, best_bid,
\* best_ask, snapshot, cancel_timed_out_orders) the log before is a prefix of
\* the log after; the only step that may shorten it is reset, which empties it.
C12_TradeLogAppendOnly ==
    [][ \/ IsPrefix(trade_log, trade_log')
        \/ Reset /\ trade_log' = <<>>
      ]_vars

\* Two records are in the log and a snapshot has been taken over them.
C12_Witness ==
    /\ Len(trade_log) >= 2
    /\ last_call # NoCall
    /\ last_call[1] = "snapshot"

\* C13: in every trade record the order named by buyer_id has direction BUY
\* and the order named by seller_id has direction SELL.
C13_BuyerBuysSellerSells ==
    \A t \in Trades : Buyer(t).direction = BUY /\ Seller(t).direction = SELL

\* Both kinds of trade are on the log: a market sell that hit a resting bid
\* and a market buy that lifted a resting ask.
C13_Witness ==
    /\ \E t \in Trades : Buyer(t).order_type = LIMIT /\ Seller(t).order_type = MARKET
    /\ \E t \in Trades : Buyer(t).order_type = MARKET /\ Seller(t).order_type = LIMIT

\* The entries of a side whose order is PENDING with quantity > 0.
LiveIds(heap) ==
    {id \in HeapIds(heap) : Obj(orders, id).status = PENDING /\ Obj(orders, id).quantity > 0}

\* A returned value ret is the price of a live order of the side.
IsLivePrice(ret, heap) == \E id \in LiveIds(heap) : ret = Some(Obj(orders, id).price)

\* C14: what best_bid() / best_ask() returned is None or the price of an order
\* that is in the respective collection with status PENDING and quantity > 0,
\* so never more than the highest live bid (never less than the lowest live
\* ask) and never the price of a stale entry.
C14_BestIsNoneOrLivePrice ==
    /\ LastOp = "best_bid" /\ last_call[2] # None =>
          /\ IsLivePrice(last_call[2], buys)
          /\ last_call[2][1] <= MaxOf(LivePrices(buys))
    /\ LastOp = "best_ask" /\ last_call[2] # None =>
          /\ IsLivePrice(last_call[2], sells)
          /\ last_call[2][1] >= MinOf(LivePrices(sells))

\* best_bid() popped an EXECUTED bid (no other call removes one) and returned
\* a price below that of the stale bid.
C14_Witness ==
    /\ LastOp = "best_bid"
    /\ last_call[2] # None
    /\ \E id \in OrderIds :
         /\ Obj(orders, id).direction = BUY
         /\ Obj(orders, id).status = EXECUTED
         /\ ~InHeap(buys, id)
         /\ Obj(orders, id).price > last_call[2][1]

\* C15: a best_bid() / best_ask() call leaves trade_log and the PENDING orders
\* of both sides as they were, and calling either query again right after it
\* returns what it returned before the call (best_bid, the value just given).
C15_QueriesIdempotent ==
    [][ BestBid \/ BestAsk =>
          /\ trade_log' = trade_log
          /\ PendingIds(buys', orders') = PendingIds(buys, orders)
          /\ PendingIds(sells', orders') = PendingIds(sells, orders)
          /\ best_bid(buys', orders').ret = best_bid(buys, orders).ret
          /\ best_ask(sells', orders').ret = best_ask(sells, orders).ret
          /\ LastOp' = "best_bid" => best_bid(buys', orders').ret = last_call'[2]
          /\ LastOp' = "best_ask" => best_ask(sells', orders').ret = last_call'[2]
      ]_vars

\* best_ask() has popped an EXECUTED ask (no other call removes one) while a
\* live ask stays behind.
C15_Witness ==
    /\ LastOp = "best_ask"
    /\ last_call[2] # None
    /\ \E id \in OrderIds :
         /\ Obj(orders, id).direction = SELL
         /\ Obj(orders, id).status = EXECUTED
         /\ ~InHeap(sells, id)
    /\ LiveIds(sells) # {}

\* C16: best_bid() / best_ask() return normally, and return None whenever the
\* collection holds no PENDING order of positive quantity (it is empty, or
\* all its entries were stale and have been popped).
C16_NoneWithoutLiveOrder ==
    /\ LastOp = "best_bid" =>
          /\ exc = "none"
          /\ LiveIds(buys) = {} => last_call[2] = None /\ buys = <<>>
    /\ LastOp = "best_ask" =>
          /\ exc = "none"
          /\ LiveIds(sells) = {} => last_call[2] = None /\ sells = <<>>

\* best_ask() found only stale asks: it popped them all and returned None.
C16_Witness ==
    /\ LastOp = "best_ask"
    /\ last_call[2] = None
    /\ sells = <<>>
    /\ \E id \in OrderIds :
         /\ Obj(orders, id).direction = SELL
         /\ Obj(orders, id).status = EXECUTED

\* C17: order ids are unique and strictly increasing in construction order
\* (orders lists the objects in that order), and stay below the counter, at
\* every point of a run, reset() calls included.
C17_OrderIdsIncrease ==
    /\ \A i \in 1..Len(orders) : orders[i].order_id < next_id
    /\ \A i, j \in 1..Len(orders) : i < j => orders[i].order_id < orders[j].order_id

\* The book was reset after a trade (the log is empty although an order is
\* EXECUTED) and an order constructed afterwards rests in it.
C17_Witness ==
    /\ trade_log = <<>>
    /\ \E id \in OrderIds : Obj(orders, id).status = EXECUTED
    /\ \E i \in 1..Len(orders) :
         /\ InBook(orders[i].order_id)
         /\ \E j \in 1..(i - 1) : orders[j].status = EXECUTED

\* What check_timeout(t) must do to the order o, given that it returned r
\* and left o2.
TimeoutContract(o, o2, t, r) ==
    /\ r = (t - o.timestep > o.max_wait_time)
    /\ r => o2 = [o EXCEPT !.status = CANCELLED]
    /\ ~r => o2 = o

\* C18: check_timeout(t) returns true and sets status CANCELLED exactly when
\* t - timestep > max_wait_time, otherwise returns false and changes nothing;
\* the call repeated (at the same or a later t) on the order it has just
\* cancelled returns true again and changes no field.
C18_CheckTimeoutContract ==
    [][ CallCheckTimeout =>
          /\ TimeoutContract(Obj(orders, last_call'[2]), Obj(orders', last_call'[2]),
                             last_call'[3], last_call'[4])
          /\ (/\ LastOp = "check_timeout"
              /\ last_call[2] = last_call'[2]
              /\ last_call[4]
              /\ last_call'[3] >= last_call[3])
             => last_call'[4] /\ orders' = orders
      ]_vars

\* check_timeout returned true on a PENDING order and cancelled it.
C18_Witness ==
    /\ LastOp = "check_timeout"
    /\ last_call[4]
    /\ Obj(orders, last_call[2]).status = CANCELLED
    /\ last_call[3] - Obj(orders, last_call[2]).timestep > Obj(orders, last_call[2]).max_wait_time

\* What execute(p, t, q) must do to the order o, given that it left o2.
ExecuteContract(o, o2, p, t, q) ==
    /\ o2.executed_price = Some(p)
    /\ o2.executed_timestep = Some(t)
    /\ o2.quantity = o.quantity - q
    /\ o.status = PENDING => (o2.status = EXECUTED <=> o2.quantity <= 0)
    /\ o.status = PENDING /\ o2.quantity > 0 => o2.status = PENDING
    /\ o2 = [o EXCEPT !.executed_price = o2.executed_price,
                      !.executed_timestep = o2.executed_timestep,
                      !.quantity = o2.quantity,
                      !.status = o2.status]

\* C19: execute records executed_price and executed_timestep, decreases the
\* quantity by fill_qty, and moves a PENDING order to EXECUTED if and only if
\* the resulting quantity is <= 0; after a partial fill the order is PENDING.
C19_ExecuteContract ==
    [][ CallExecute =>
          ExecuteContract(Obj(orders, last_call'[2]), Obj(orders', last_call'[2]),
                          last_call'[3], last_call'[4], last_call'[5])
      ]_vars

\* A partial fill: execute left the order PENDING with part of its quantity.
C19_Witness ==
    /\ LastOp = "execute"
    /\ Obj(orders, last_call[2]).status = PENDING
    /\ Obj(orders, last_call[2]).quantity > 0
    /\ Obj(orders, last_call[2]).quantity < submitted_qty[last_call[2] + 1]

\* C20: under the engine's operations on well-formed orders no quantity is
\* ever negative, every PENDING order has quantity > 0, and every fill is of
\* at least 1 and of no more than either of its two orders was submitted with.
C20_QuantitiesStayValid ==
    /\ \A id \in OrderIds :
         /\ Obj(orders, id).quantity >= 0
         /\ Obj(orders, id).status = PENDING => Obj(orders, id).quantity > 0
    /\ \A t \in Trades :
         /\ t.trade_qty >= 1
         /\ t.trade_qty <= submitted_qty[t.buyer_id + 1]
         /\ t.trade_qty <= submitted_qty[t.seller_id + 1]

\* A market order smaller than the resting order it met: it is filled to 0
\* and the resting order stays PENDING in the book with what is left.
C20_Witness ==
    \E t \in Trades :
        /\ Initiator(t).quantity = 0
        /\ Initiator(t).status = EXECUTED
        /\ Resting(t).status = PENDING
        /\ Resting(t).quantity > 0
        /\ Resting(t).quantity < submitted_qty[Resting(t).order_id + 1]
        /\ InBook(Resting(t).order_id)

RECURSIVE SumNaming(_, _)
\* The sum of trade_qty over the records of trades that name the order id.
SumNaming(trades, id) ==
    IF trades = <<>> THEN 0
    ELSE (IF Head(trades).buyer_id = id \/ Head(trades).seller_id = id
          THEN Head(trades).trade_qty ELSE 0) + SumNaming(Tail(trades), id)

\* Every LIMIT order's quantity is what it was submitted with, less its fills.
RestingAccounted ==
    \A id \in OrderIds :
        Obj(orders, id).order_type = LIMIT =>
            Obj(orders, id).quantity = submitted_qty[id + 1] - SumNaming(trade_log, id)

\* The id of the resting order of a trade record, read in the state after the step.
RestingIdAfter(t) ==
    IF Obj(orders', t.buyer_id).order_type = MARKET THEN t.seller_id ELSE t.buyer_id

\* C21: a resting order's quantity is the quantity it was submitted with minus
\* the trade_qty of the records naming it; an order filled by a sweep is in its
\* list afterwards (once) when quantity is left and absent when none is; and a
\* market order that was filled completely leaves its own side's list as it was.
C21_RestingQuantityAccounted ==
    [][ /\ RestingAccounted'
        /\ MarketSubmitStep =>
             LET m == orders'[Len(orders) + 1]
                 own == IF m.direction = BUY THEN buys ELSE sells
                 ownAfter == IF m.direction = BUY THEN buys' ELSE sells'
                 oppAfter == IF m.direction = BUY THEN sells' ELSE buys'
             IN /\ \A i \in 1..Len(NewTrades) :
                      LET r == RestingIdAfter(NewTrades[i])
                      IN /\ Obj(orders', r).quantity > 0 => Count(oppAfter, r) = 1
                         /\ Obj(orders', r).quantity = 0 => Count(oppAfter, r) = 0
                /\ m.status = EXECUTED => ownAfter = own
      ]_vars

\* One sweep emptied a resting order, which left the book, and filled part of
\* the next, which is back in it; the market order is filled completely.
C21_Witness ==
    \E t1 \in Trades, t2 \in Trades :
        /\ Initiator(t1).order_id = Initiator(t2).order_id
        /\ Initiator(t1).status = EXECUTED
        /\ Resting(t1).quantity = 0
        /\ ~InBook(Resting(t1).order_id)
        /\ Resting(t2).quantity > 0
        /\ Resting(t2).quantity < submitted_qty[Resting(t2).order_id + 1]
        /\ InBook(Resting(t2).order_id)

\* C22: right after reset() both lists and trade_log are empty, and a query
\* made then answers accordingly: best_bid() and best_ask() return None,
\* snapshot() reports None, None and depths 0, 0, and the log stays empty.
C22_ResetEmptiesBook ==
    [][ /\ LastOp' = "reset" => buys' = <<>> /\ sells' = <<>> /\ Len(trade_log') = 0
        /\ LastOp = "reset" /\ BestBid => last_call' = <<"best_bid", None>>
        /\ LastOp = "reset" /\ BestAsk => last_call' = <<"best_ask", None>>
        /\ LastOp = "reset" /\ Snapshot =>
             /\ last_call' = <<"snapshot", None, None, 0, 0>>
             /\ Len(trade_log') = 0
      ]_vars

\* A snapshot of depths 0, 0 although the book's two orders traded and the
\* resting one is still PENDING: reset() emptied the lists and the log.
C22_Witness ==
    /\ last_call = <<"snapshot", None, None, 0, 0>>
    /\ next_id = 2
    /\ trade_log = <<>>
    /\ \E id \in OrderIds : Obj(orders, id).status = EXECUTED
    /\ \E id \in OrderIds :
         /\ Obj(orders, id).order_type = LIMIT
         /\ Obj(orders, id).status = PENDING
         /\ Obj(orders, id).quantity < submitted_qty[id + 1]

\* C23: two books given the same calls, with orders freshly constructed from
\* the same arguments, hold the same sequence of trade records (buyer_id,
\* seller_id, trade_price, trade_qty, trade_timestamp).
C23_SameCallsSameTrades == trade_log = book2.trade_log

\* C24: run() is never ended by an exception, every completed step has
\* advanced current_time by exactly 1, and when run() has returned
\* current_time is max_timesteps.
C24_RunReachesMaxTimesteps ==
    /\ market.status # "raised"
    /\ current_time = market.steps
    /\ market.status = "returned" => current_time = max_timesteps

\* The resting price is within the price bound of the market order m.
WithinBound(m, o) ==
    IF m.direction = BUY THEN o.price <= m.price ELSE o.price >= m.price

\* The orders a step took out of the list opp without changing them.
Lost(opp, oppAfter) ==
    {id \in HeapIds(opp) : ~InHeap(oppAfter, id) /\ Obj(orders', id) = Obj(orders, id)}

\* C25: a sweep that ends with quantity still to fill and opposite entries it
\* has not filled ended at an order outside the bound; exactly that one order
\* leaves the list without being re-inserted, still PENDING and with its
\* quantity unchanged, and an order that is in neither list never comes back
\* to one and is never named by a later trade.
C25_RejectedOrderIsLost ==
    [][ /\ \A id \in OrderIds :
             ~InBook(id) =>
                 /\ ~InBook(id)'
                 /\ SumNaming(NewTrades, id) = 0
        /\ MarketSubmitStep =>
             LET m == orders'[Len(orders) + 1]
                 opp == IF m.direction = BUY THEN sells ELSE buys
                 oppAfter == IF m.direction = BUY THEN sells' ELSE buys'
                 lost == Lost(opp, oppAfter)
             IN /\ Cardinality(lost) <= 1
                /\ lost # {} <=> (m.quantity > 0 /\ Len(NewTrades) < Len(opp))
                /\ \A id \in lost :
                      /\ ~WithinBound(m, Obj(orders, id))
                      /\ Obj(orders', id).status = PENDING
                      /\ Obj(orders', id).quantity = Obj(orders, id).quantity
                      /\ Obj(orders', id).quantity > 0
                      /\ ~InBook(id)'
      ]_vars

\* A market order stopped at a resting order outside its bound; that order is
\* in neither list, PENDING and unfilled, and a later market order whose bound
\* it satisfies found nothing to trade with.
C25_Witness ==
    \E id \in OrderIds, m1 \in OrderIds, m2 \in OrderIds :
        /\ id < m1 /\ m1 < m2
        /\ Rejected(id)
        /\ Obj(orders, id).quantity = submitted_qty[id + 1]
        /\ Obj(orders, m1).order_type = MARKET
        /\ Obj(orders, m1).direction # Obj(orders, id).direction
        /\ ~WithinBound(Obj(orders, m1), Obj(orders, id))
        /\ Obj(orders, m2).order_type = MARKET
        /\ Obj(orders, m2).direction # Obj(orders, id).direction
        /\ WithinBound(Obj(orders, m2), Obj(orders, id))
        /\ Obj(orders, m2).quantity = submitted_qty[m2 + 1]
        /\ trade_log = <<>>

\* The resting order ids of a sequence of new trade records, in order.
RestingIdsOf(trades) == [i \in 1..Len(trades) |-> RestingIdAfter(trades[i])]

\* C26: a submit_order call ends after a bounded amount of work. A sweep makes
\* at most one fill per opposite entry, each of a positive quantity and each
\* against a different order, the fills add up to what the market order lost,
\* and when quantity is left the sweep ended on an empty list or on an order
\* outside the bound; the call creates at most one further order (the remainder)
\* and adds at most one entry to the order's own side.
C26_SubmitTerminates ==
    [][ /\ LimitSubmitStep => Len(orders') = Len(orders) + 1
        /\ MarketSubmitStep =>
             LET m == orders'[Len(orders) + 1]
                 opp == IF m.direction = BUY THEN sells ELSE buys
                 oppAfter == IF m.direction = BUY THEN sells' ELSE buys'
                 own == IF m.direction = BUY THEN buys ELSE sells
                 ownAfter == IF m.direction = BUY THEN buys' ELSE sells'
                 ids == RestingIdsOf(NewTrades)
             IN /\ Len(NewTrades) <= Len(opp)
                /\ \A i \in 1..Len(NewTrades) : NewTrades[i].trade_qty > 0
                /\ \A i \in 1..Len(ids), j \in 1..Len(ids) : ids[i] = ids[j] => i = j
                /\ SumQty(NewTrades) = submitted_qty'[Len(orders) + 1] - m.quantity
                /\ m.quantity >= 0
                /\ m.quantity > 0 =>
                      \/ oppAfter = <<>> /\ Len(NewTrades) = Len(opp)
                      \/ Lost(opp, oppAfter) # {}
                /\ Len(orders') <= Len(orders) + 2
                /\ Len(ownAfter) <= Len(own) + 1
      ]_vars

\* One sweep made as many fills as the opposite list had entries and stopped
\* there with the market order filled exactly.
C26_Witness ==
    \E t1 \in Trades, t2 \in Trades :
        /\ Initiator(t1).order_id = Initiator(t2).order_id
        /\ Resting(t1).order_id # Resting(t2).order_id
        /\ Initiator(t1).status = EXECUTED
        /\ Initiator(t1).quantity = 0
        /\ Resting(t1).quantity = 0
        /\ Resting(t2).quantity = 0
        /\ Len(trade_log) = 2
        /\ buys = <<>> /\ sells = <<>>

\* The orders were constructed with timesteps that never decrease.
TimestepsNonDecreasing ==
    \A i \in OrderIds, j \in OrderIds :
        i <= j => Obj(orders, i).timestep <= Obj(orders, j).timestep

\* C27: every record carries the timestep of the market order that initiated
\* the fill, and when the orders are submitted with timesteps that never
\* decrease, trade_timestamp never decreases along trade_log.
C27_TradeLogChronological ==
    /\ \A t \in Trades :
          /\ Initiator(t).order_type = MARKET
          /\ t.trade_timestamp = Initiator(t).timestep
    /\ TimestepsNonDecreasing =>
          \A i \in 1..Len(trade_log), j \in 1..Len(trade_log) :
              i <= j => trade_log[i].trade_timestamp <= trade_log[j].trade_timestamp

\* Two fills at different steps, the later one against an order that has
\* rested since the earlier step.
C27_Witness ==
    /\ TimestepsNonDecreasing
    /\ Len(trade_log) = 2
    /\ trade_log[1].trade_timestamp < trade_log[2].trade_timestamp
    /\ Resting(trade_log[2]).timestep < trade_log[2].trade_timestamp
    /\ Initiator(trade_log[2]).timestep = trade_log[2].trade_timestamp

\* Every entry of the list heap refers to a live LIMIT order of direction dir,
\* its priority is the one pushed for that order, and no order has two entries.
LiveEntries(heap, dir) ==
    /\ \A i \in 1..Len(heap) :
          /\ heap[i].id \in OrderIds
          /\ Obj(orders, heap[i].id).order_type = LIMIT
          /\ Obj(orders, heap[i].id).direction = dir
          /\ Obj(orders, heap[i].id).status = PENDING
          /\ Obj(orders, heap[i].id).quantity > 0
          /\ heap[i].prio = priority(Obj(orders, heap[i].id))
    /\ \A i \in 1..Len(heap), j \in 1..Len(heap) : heap[i].id = heap[j].id => i = j

\* C28: whatever calls were made, every entry of self.buys is a distinct
\* PENDING LIMIT BUY order with quantity > 0 and every entry of self.sells a
\* distinct PENDING LIMIT SELL order with quantity > 0, so the depths that
\* snapshot() reports are the numbers of live resting orders.
C28_BookHoldsOnlyLiveOrders ==
    /\ LiveEntries(buys, BUY)
    /\ LiveEntries(sells, SELL)
    /\ LastOp = "snapshot" =>
          /\ last_call[4] = Cardinality(LiveIds(buys))
          /\ last_call[5] = Cardinality(LiveIds(sells))

\* A snapshot that counts a resting order after the engine removed a filled
\* order and a cancelled order from the lists.
C28_Witness ==
    /\ LastOp = "snapshot"
    /\ last_call[4] + last_call[5] >= 1
    /\ \E id \in OrderIds :
          /\ Obj(orders, id).order_type = LIMIT
          /\ Obj(orders, id).status = CANCELLED
          /\ ~InBook(id)
    /\ \E id \in OrderIds :
          /\ Obj(orders, id).order_type = LIMIT
          /\ Obj(orders, id).quantity < submitted_qty[id + 1]

\* The order id is fully filled or was cancelled.
Terminal(id) == Obj(orders, id).status \in {EXECUTED, CANCELLED}

\* C29: an order that is EXECUTED or was cancelled by cancel_timed_out_orders
\* is named by no trade record appended from then on, its quantity stays what
\* it is, and it is in neither list.
C29_TerminalOrdersUntouched ==
    [][ \A id \in OrderIds :
           Terminal(id) =>
               /\ \A i \in 1..Len(NewTrades) :
                     NewTrades[i].buyer_id # id /\ NewTrades[i].seller_id # id
               /\ Obj(orders', id).quantity = Obj(orders, id).quantity
               /\ ~InBook(id)'
      ]_vars

\* An order was cancelled with its quantity unfilled, and a sweep at a later
\* step traded against another order of the same side.
C29_Witness ==
    \E id \in OrderIds, t \in Trades :
        /\ Obj(orders, id).status = CANCELLED
        /\ Obj(orders, id).quantity = submitted_qty[id + 1]
        /\ Obj(orders, id).timestep < t.trade_timestamp
        /\ Resting(t).direction = Obj(orders, id).direction
        /\ Resting(t).order_id # id
        /\ Initiator(t).status = EXECUTED
        /\ WithinBound(Initiator(t), Obj(orders, id))

\* C30: when every step begins with cancel_timed_out_orders(t) and its orders
\* carry timestep t, no fill is made against an order older than its budget:
\* trade_timestamp minus the resting order's timestep is at most the resting
\* order's max_wait_time.
C30_NoTradePastBudget ==
    \A t \in Trades :
        /\ Resting(t).order_type = LIMIT
        /\ t.trade_timestamp - Resting(t).timestep <= Resting(t).max_wait_time

\* A fill against an order in the last step of its budget, while an older
\* order of the same side had been cancelled at the head of that step.
C30_Witness ==
    \E t \in Trades, id \in OrderIds :
        /\ t.trade_timestamp - Resting(t).timestep = Resting(t).max_wait_time
        /\ Resting(t).max_wait_time > 0
        /\ Obj(orders, id).status = CANCELLED
        /\ Obj(orders, id).direction = Resting(t).direction
        /\ Obj(orders, id).timestep + Obj(orders, id).max_wait_time < t.trade_timestamp

====
